---- MODULE Spec2Model ----
(***************************************************************************)
(* A model of the librashader filter chain.                                *)
(*                                                                         *)
(*   Spec       the frame scheduler driving FilterPass::draw               *)
(*              (librashader-runtime-vk/src/filter_pass.rs)                *)
(*   SpecImage  the scaled framebuffer OwnedImage                          *)
(*              (librashader-runtime-d3d12/src/framebuffer.rs)             *)
(*   SpecNames  the semantics catalog and the name classifier              *)
(*              (librashader-reflect/src/reflect/semantics.rs)             *)
(*                                                                         *)
(* The three specifications share the module's variables; each leaves the  *)
(* variables of the other two at their initial values.                     *)
(***************************************************************************)
EXTENDS Integers, Sequences, FiniteSets, TLC

\* ------------------------------------------------------------------ bounds

NumPasses == 2
MaxHistoryIndex == 2
MaxFrames == 3
MaxMod == 2

Passes == 0 .. (NumPasses - 1)
FrameCounts == 0 .. MaxMod
FrameDirections == {-1, 1}

\* ------------------------------------------------------- semantics catalog

\* enum TextureSemantics
Original == "Original"
Source == "Source"
OriginalHistory == "OriginalHistory"
PassOutput == "PassOutput"
PassFeedback == "PassFeedback"
User == "User"

\* TextureSemantics::semantics(self, index): a SemanticMap
Sem(s, i) == [semantics |-> s, index |-> i]

\* TextureSemantics::is_array
is_array(s) == ~(s \in {Original, Source})

\* ------------------------------------------------------------ frame model

VARIABLES
    config,                 \* per pass: reflection.meta.texture_meta, reflection.ubo,
                            \* config.frame_count_mod, frames_in_flight
    output_framebuffers,    \* pass -> handle of the owned framebuffer it writes (feedback pair: current)
    feedback_framebuffers,  \* pass -> handle of the previous-frame output (feedback pair: previous)
    history,                \* history ring: index -> handle, index 0 the newest
    img,                    \* handle -> [content, layout]
    output_inputs,          \* FilterCommon.output_inputs
    feedback_inputs,        \* FilterCommon.feedback_inputs
    history_textures,       \* FilterCommon.history_textures
    pc,                     \* "idle" | "pass" | "end"
    pass_index,             \* the pass the running frame draws next
    frame_no,               \* number of frame() calls made so far
    original,               \* handle of the running frame's input
    frame_count,            \* frame() argument
    frame_direction,        \* frame() argument
    bound,                  \* pass -> what draw bound for it in the running frame
    cmd,                    \* commands recorded by the running frame
    pre_feedback,           \* feedback handles when the running frame was called
    completed,              \* the frame() calls that returned Ok, oldest first
    input_size,             \* size of the input image of the last frame() call
    history_size            \* history image -> the size of its backing

frameVars == <<config, output_framebuffers, feedback_framebuffers,
               history, img, output_inputs, feedback_inputs, history_textures, pc,
               pass_index, frame_no, original, frame_count, frame_direction, bound,
               cmd, pre_feedback, completed, input_size, history_size>>

NoHandle == -1
NotBound == [drawn |-> FALSE]

\* Resource states of an image
ShaderResource == "ShaderResource"
RenderTarget == "RenderTarget"
CopySource == "CopySource"
CopyDest == "CopyDest"
Invalid == "Invalid"

\* Handles: the two images of pass k's pair, the history slots, the viewport
\* target, and one input image per frame() call.
OutHandle(k, side) == 2 * k + side
HistHandle(j) == 2 * NumPasses + j
ViewportHandle == 2 * NumPasses + MaxHistoryIndex + 1
InputHandle(n) == ViewportHandle + n
Handles == 0 .. (ViewportHandle + MaxFrames)

Clear == [src |-> "clear", pass |-> 0, frame |-> 0]
InputContent(n) == [src |-> "input", pass |-> 0, frame |-> n]
PassContent(k, n) == [src |-> "pass", pass |-> k, frame |-> n]

\* The indexed texture semantics a pass may sample
TexRefs ==
    {Sem(PassOutput, i) : i \in Passes}
        \cup {Sem(PassFeedback, i) : i \in Passes}
        \cup {Sem(OriginalHistory, j) : j \in 0 .. MaxHistoryIndex}

BaseRefs == {Sem(Original, 0), Sem(Source, 0)}

\* The plain pass: it samples Original and Source, has no UBO, no frame-count
\* modulo and one frame in flight.
PlainPass ==
    [texture_meta |-> BaseRefs, frame_count_mod |-> 0, ubo |-> FALSE, frames_in_flight |-> 1]

\* The passes of a chain: each differs from the plain pass in one respect.
Profiles ==
    {PlainPass}
        \cup {[PlainPass EXCEPT !.texture_meta = BaseRefs \cup {r}] : r \in TexRefs}
        \cup {[PlainPass EXCEPT !.frame_count_mod = m] : m \in 1 .. MaxMod}
        \cup {[PlainPass EXCEPT !.ubo = TRUE]}
        \cup {[PlainPass EXCEPT !.frames_in_flight = 2]}

\* The pass's output is read somewhere as PassFeedback[k]
IsFeedback(k) == \E p \in Passes : Sem(PassFeedback, k) \in config[p].texture_meta

HistoryRefs ==
    {r.index : r \in {t \in UNION {config[p].texture_meta : p \in Passes} :
                          t.semantics = OriginalHistory}}

SetMax(S) == CHOOSE x \in S : \A y \in S : y <= x

\* Length of the history ring
max_history == IF HistoryRefs = {} THEN 0 ELSE SetMax(HistoryRefs)

\* ---- librashader_runtime::binding::BindSemantics::bind_semantics

Resolve(t, orig, src, pass_outputs, pass_feedback, original_history) ==
    CASE t.semantics = Original -> orig
      [] t.semantics = Source -> src
      [] t.semantics = OriginalHistory ->
            IF t.index \in DOMAIN original_history THEN original_history[t.index] ELSE NoHandle
      [] t.semantics = PassOutput ->
            IF t.index \in DOMAIN pass_outputs THEN pass_outputs[t.index] ELSE NoHandle
      [] t.semantics = PassFeedback ->
            IF t.index \in DOMAIN pass_feedback THEN pass_feedback[t.index] ELSE NoHandle
      [] OTHER -> NoHandle

FrameCountUniform(count, mod) == IF mod = 0 THEN count ELSE count % mod

bind_semantics(cfg, count, direction, orig, src, pass_outputs, pass_feedback, original_history) ==
    [textures |->
        [t \in cfg.texture_meta |->
            Resolve(t, orig, src, pass_outputs, pass_feedback, original_history)],
     FrameCount |-> FrameCountUniform(count, cfg.frame_count_mod),
     FrameDirection |-> direction]

\* ---- FilterPass (librashader-runtime-vk/src/filter_pass.rs)

\* the whole array instead of the slice below pass_index
PassOutputsUnsliced(k) == output_inputs

\* parent.output_inputs[0..pass_index]
PassOutputs(k) == [i \in 0 .. (k - 1) |-> output_inputs[i]]

\* the current outputs instead of the feedback textures
FeedbackFromOutputs == output_framebuffers

\* parent.feedback_inputs
FeedbackInputs == feedback_inputs

\* the ring handed over with the current input in front
HistoryWithCurrent ==
    [j \in DOMAIN history_textures |-> IF j = 0 THEN original ELSE history_textures[j - 1]]

\* the ring as it is after the advance of the running frame
HistoryInputsAdvanced ==
    [j \in DOMAIN history_textures |->
        IF j = 0 THEN history_textures[Cardinality(DOMAIN history_textures) - 1]
        ELSE history_textures[j - 1]]

\* parent.history_textures
HistoryInputs == history_textures

\* the counter of the next frame
SemanticsFrameCountNext(count) == count + 1

\* the frame counter draw hands to build_semantics
SemanticsFrameCount(count) == count

\* the original input handed over as the source of every pass
SemanticsSourceOriginal(orig, src) == orig

\* the source texture draw hands to build_semantics
SemanticsSource(orig, src) == src

build_semantics(k, count, direction, orig, src) ==
    bind_semantics(config[k], count, direction, orig, src,
                   PassOutputs(k), FeedbackInputs, HistoryInputs)

\* descriptor_sets[(frame_count % self.frames_in_flight) as usize]
DescriptorIndex(k, count) == count % config[k].frames_in_flight

\* the viewport's image instead of the render target's
ColorAttachmentViewport(viewport, output) == viewport

\* the image view draw renders into
ColorAttachment(viewport, output) == output

Transition(h, from, to) == [op |-> "transition", image |-> h, from |-> from, to |-> to, pass |-> -1]
DrawCall(k, h) == [op |-> "draw", image |-> h, from |-> "", to |-> "", pass |-> k]

\* no transition recorded before rendering
begin_pass_missing(h) == <<>>

\* output.output.begin_pass(cmd)
begin_pass(h) == <<Transition(h, ShaderResource, RenderTarget)>>

\* what draw records after the descriptors are written
draw_commands(k, viewport, output) ==
    begin_pass(output) \o <<DrawCall(k, ColorAttachment(viewport, output))>>

\* what draw leaves in the descriptor set and the uniform storage
draw_bindings(k, count, direction, orig, src) ==
    LET sem == build_semantics(k, SemanticsFrameCount(count), direction, orig,
                               SemanticsSource(orig, src))
    IN  [drawn |-> TRUE,
         descriptor |-> DescriptorIndex(k, count),
         textures |-> sem.textures,
         layouts |-> [t \in DOMAIN sem.textures |->
                        IF sem.textures[t] = NoHandle THEN ShaderResource
                        ELSE img[sem.textures[t]].layout],
         FrameCount |-> sem.FrameCount,
         FrameDirection |-> sem.FrameDirection,
         source |-> src,
         target |-> NoHandle,
         frame |-> frame_no]

\* ---- command execution on the image store

\* A transition whose from-state is not the image's state leaves it Invalid; a
\* draw into an image that is not a render target does too.
Exec(im, c, n) ==
    IF c.op = "transition"
    THEN [im EXCEPT ![c.image].layout =
              IF im[c.image].layout = c.from THEN c.to ELSE Invalid]
    ELSE [im EXCEPT ![c.image] =
              [content |-> PassContent(c.pass, n),
               layout |-> IF im[c.image].layout = RenderTarget THEN RenderTarget ELSE Invalid]]

RECURSIVE ExecAll(_, _, _)
ExecAll(im, cs, n) ==
    IF cs = <<>> THEN im ELSE ExecAll(Exec(im, Head(cs), n), Tail(cs), n)

\* ---- FilterChain::frame

\* the render target the scheduler hands to draw for pass k
OutputTarget(k) == IF k = NumPasses - 1 THEN ViewportHandle ELSE output_framebuffers[k]

\* the source the scheduler hands to draw for pass k
SourceInput(k) == IF k = 0 THEN original ELSE output_inputs[k - 1]

end_pass(h) == <<Transition(h, RenderTarget, ShaderResource)>>

\* The sizes an input image may have
InputSizes ==
    {[width |-> 1, height |-> 1], [width |-> 2, height |-> 1], [width |-> 1, height |-> 2]}

\* The size the history images are created with
InitialSize == [width |-> 1, height |-> 1]

FrameBegin(count, direction, size) ==
    /\ pc = "idle"
    /\ input_size' = size
    /\ frame_no < MaxFrames
    /\ frame_no' = frame_no + 1
    /\ original' = InputHandle(frame_no + 1)
    /\ img' = [img EXCEPT ![InputHandle(frame_no + 1)] =
                   [content |-> InputContent(frame_no + 1), layout |-> ShaderResource]]
    /\ frame_count' = count
    /\ frame_direction' = direction
    /\ feedback_inputs' = feedback_framebuffers
    /\ history_textures' = history
    /\ pre_feedback' = feedback_framebuffers
    /\ pc' = "pass"
    /\ pass_index' = 0
    /\ bound' = [k \in Passes |-> NotBound]
    /\ cmd' = <<>>
    /\ UNCHANGED <<config, output_framebuffers, feedback_framebuffers,
                   history, output_inputs, completed, history_size>>

\* draw returns Ok, the scheduler ends the pass and moves on
FramePass(k) ==
    /\ pc = "pass"
    /\ pass_index = k
    /\ LET out == OutputTarget(k)
           src == SourceInput(k)
           cs == draw_commands(k, ViewportHandle, out) \o end_pass(out)
       IN  /\ bound' = [bound EXCEPT ![k] =
                           [draw_bindings(k, frame_count, frame_direction, original, src)
                               EXCEPT !.target = out]]
           /\ cmd' = cmd \o cs
           /\ img' = ExecAll(img, cs, frame_no)
           /\ output_inputs' = IF k < NumPasses - 1
                               THEN [output_inputs EXCEPT ![k] = out]
                               ELSE output_inputs
    /\ IF k = NumPasses - 1
       THEN pc' = "end" /\ pass_index' = pass_index
       ELSE pc' = "pass" /\ pass_index' = k + 1
    /\ UNCHANGED <<config, output_framebuffers, feedback_framebuffers,
                   history, feedback_inputs, history_textures, frame_no, original,
                   frame_count, frame_direction, pre_feedback, completed,
                   input_size, history_size>>

\* draw has begun the pass when the descriptor write fails
draw_error_commands_begun(k, output) == begin_pass(output)

\* what draw has recorded when ubo_ring.bind_to_descriptor_set returns Err
draw_error_commands(k, output) == <<>>

\* draw returns Err from ubo_ring.bind_to_descriptor_set: the frame is aborted
FramePassFail(k) ==
    /\ pc = "pass"
    /\ pass_index = k
    /\ config[k].ubo
    /\ pc' = "idle"
    /\ bound' = [p \in Passes |-> NotBound]
    /\ LET cs == draw_error_commands(k, OutputTarget(k))
       IN  /\ cmd' = cmd \o cs
           /\ img' = ExecAll(img, cs, frame_no)
    /\ UNCHANGED <<config, output_framebuffers, feedback_framebuffers,
                   history, output_inputs, feedback_inputs, history_textures,
                   pass_index, frame_no, original, frame_count, frame_direction,
                   pre_feedback, completed, input_size, history_size>>

\* HistoryRing advance: the oldest slot receives the copy and becomes index 0
HistoryAdvance(h) ==
    IF max_history = 0 THEN h
    ELSE [j \in 0 .. (max_history - 1) |->
            IF j = 0 THEN h[max_history - 1] ELSE h[j - 1]]

\* every history image reallocated to the size of the input
HistoryScaleAll(sizes, slot, size) == [h \in DOMAIN sizes |-> size]

\* HistoryRing advance: the backing of the slot that receives the copy is
\* reallocated to the size of the input if it differs
HistoryScale(sizes, slot, size) == [sizes EXCEPT ![slot] = size]

FrameEnd ==
    /\ pc = "end"
    /\ output_framebuffers' =
          [k \in Passes |-> IF IsFeedback(k) THEN feedback_framebuffers[k]
                            ELSE output_framebuffers[k]]
    /\ feedback_framebuffers' =
          [k \in Passes |-> IF IsFeedback(k) THEN output_framebuffers[k]
                            ELSE feedback_framebuffers[k]]
    /\ history' = HistoryAdvance(history)
    /\ img' = IF max_history = 0 THEN img
              ELSE [img EXCEPT ![history[max_history - 1]].content = img[original].content]
    /\ history_size' = IF max_history = 0 THEN history_size
                       ELSE HistoryScale(history_size, history[max_history - 1], input_size)
    /\ pc' = "idle"
    /\ completed' = Append(completed, frame_no)
    /\ bound' = [p \in Passes |-> NotBound]
    /\ cmd' = <<>>
    /\ UNCHANGED <<config, output_inputs, feedback_inputs,
                   history_textures, pass_index, frame_no, original, frame_count,
                   frame_direction, pre_feedback, input_size>>

\* the chain after construction with the pass configuration cfg
FrameStart(cfg) ==
    /\ config = cfg
    /\ output_framebuffers = [k \in Passes |-> OutHandle(k, 0)]
    /\ feedback_framebuffers =
          [k \in Passes |-> IF IsFeedback(k) THEN OutHandle(k, 1) ELSE NoHandle]
    /\ history = [j \in 0 .. (max_history - 1) |-> HistHandle(j)]
    /\ img = [h \in Handles |-> [content |-> Clear, layout |-> ShaderResource]]
    /\ output_inputs = [k \in Passes |-> NoHandle]
    /\ feedback_inputs = [k \in Passes |-> NoHandle]
    /\ history_textures = [j \in 0 .. (max_history - 1) |-> NoHandle]
    /\ pc = "idle"
    /\ pass_index = 0
    /\ frame_no = 0
    /\ original = NoHandle
    /\ frame_count = 0
    /\ frame_direction = 1
    /\ bound = [k \in Passes |-> NotBound]
    /\ cmd = <<>>
    /\ pre_feedback = [k \in Passes |-> NoHandle]
    /\ completed = <<>>
    /\ input_size = InitialSize
    /\ history_size = [h \in {HistHandle(j) : j \in 0 .. (max_history - 1)} |-> InitialSize]

FrameInit == \E cfg \in [Passes -> Profiles] : FrameStart(cfg)

\* the frame model left alone by the other specifications
FrameParked == FrameStart([k \in Passes |-> PlainPass])

\* frames whose inputs all have the size the chain was created for
FrameNext ==
    \/ \E count \in FrameCounts, direction \in FrameDirections :
          FrameBegin(count, direction, InitialSize)
    \/ \E k \in Passes : FramePass(k)
    \/ \E k \in Passes : FramePassFail(k)
    \/ FrameEnd

\* frames whose inputs differ in size, all with frame count 0 and direction 1
FrameNextSized ==
    \/ \E size \in InputSizes : FrameBegin(0, 1, size)
    \/ \E k \in Passes : FramePass(k)
    \/ \E k \in Passes : FramePassFail(k)
    \/ FrameEnd

\* ------------------------------------------------- properties of the frame

Drawn(k) == bound[k].drawn

BoundRefs(k, s) == {t \in DOMAIN bound[k].textures : t.semantics = s}

\* the number of frame() calls that had returned Ok when the running frame began
Done == Len(completed)

\* C1: during a frame the texture bound as OriginalHistory[i], i below the ring
\* length, is a ring slot and never the frame's own input; it holds the input of
\* the frame i+1 calls back, counting the calls that returned Ok, as soon as
\* that many frames have been made.
C1_HistoryLag ==
    \A k \in Passes :
        Drawn(k) =>
            \A t \in BoundRefs(k, OriginalHistory) :
                t.index < max_history =>
                    LET h == bound[k].textures[t]
                    IN  /\ h # NoHandle
                        /\ h # original
                        /\ img[h].content # InputContent(frame_no)
                        /\ Done - t.index >= 1 =>
                              img[h].content = InputContent(completed[Done - t.index])
                        /\ Done - t.index < 1 => img[h].content = Clear

C1_Witness ==
    \E k \in Passes :
        /\ Drawn(k)
        /\ frame_no = 3
        /\ Sem(OriginalHistory, 1) \in DOMAIN bound[k].textures
        /\ bound[k].textures[Sem(OriginalHistory, 1)] # NoHandle
        /\ img[bound[k].textures[Sem(OriginalHistory, 1)]].content = InputContent(1)

C7_FeedForwardOnly ==
    \A k \in Passes :
        Drawn(k) =>
            /\ \A t \in BoundRefs(k, PassOutput) :
                  /\ bound[k].textures[t] # NoHandle <=> t.index < k
                  /\ t.index < k =>
                        /\ bound[k].textures[t] = output_framebuffers[t.index]
                        /\ img[bound[k].textures[t]].content = PassContent(t.index, frame_no)
            /\ \A t \in BoundRefs(k, PassFeedback) : bound[k].textures[t] # NoHandle

C7_Witness ==
    /\ NumPasses >= 2
    /\ frame_no >= 2
    /\ Drawn(0) /\ Drawn(1)
    /\ Sem(PassOutput, 1) \in DOMAIN bound[0].textures
    /\ bound[0].textures[Sem(PassOutput, 1)] = NoHandle
    /\ Sem(PassOutput, 0) \in DOMAIN bound[1].textures
    /\ bound[1].textures[Sem(PassOutput, 0)] = output_framebuffers[0]

OwnedHandles ==
    {output_framebuffers[k] : k \in Passes}
        \cup ({feedback_framebuffers[k] : k \in Passes} \ {NoHandle})
        \cup {history[j] : j \in DOMAIN history}

DrawPositions == {c \in 1 .. Len(cmd) : cmd[c].op = "draw"}

\* C8: every draw of the running frame is recorded between a ShaderResource ->
\* RenderTarget and a RenderTarget -> ShaderResource transition of the image it
\* renders into, every transition starts from the state the image is in, every
\* texture a pass samples is in ShaderResource state, and between passes and
\* when frame() has returned every owned image is in ShaderResource state.
C8_PassTransitions ==
    /\ \A c \in DrawPositions :
          /\ c > 1
          /\ cmd[c - 1] = Transition(cmd[c].image, ShaderResource, RenderTarget)
          /\ c < Len(cmd)
          /\ cmd[c + 1] = Transition(cmd[c].image, RenderTarget, ShaderResource)
    /\ \A h \in Handles : img[h].layout # Invalid
    /\ \A h \in OwnedHandles : img[h].layout = ShaderResource
    /\ \A k \in Passes :
          Drawn(k) => \A t \in DOMAIN bound[k].layouts : bound[k].layouts[t] = ShaderResource

C8_Witness ==
    /\ pc = "end"
    /\ Len(cmd) = 3 * NumPasses
    /\ \E k \in Passes :
          /\ Sem(PassOutput, 0) \in DOMAIN bound[k].textures
          /\ bound[k].textures[Sem(PassOutput, 0)] = output_framebuffers[0]
          /\ cmd[2].image = output_framebuffers[0]

\* C9: the passes of a frame are drawn in index order, pass 0 samples the
\* original input as Source and pass k >= 1 samples the framebuffer pass k-1
\* has written in the same frame, after that pass's render-target transition
\* back to ShaderResource.
C9_PassChaining ==
    /\ \A k \in Passes : Drawn(k) <=> (pc = "end" \/ (pc = "pass" /\ k < pass_index))
    /\ \A c \in DrawPositions : c = 3 * cmd[c].pass + 2
    /\ \A k \in Passes :
          Drawn(k) =>
              LET h == bound[k].textures[Sem(Source, 0)]
              IN  /\ k = 0 => h = original /\ img[h].content = InputContent(frame_no)
                  /\ k >= 1 =>
                        /\ h = output_framebuffers[k - 1]
                        /\ img[h].content = PassContent(k - 1, frame_no)
                        /\ \E c \in DrawPositions :
                              /\ cmd[c].pass = k - 1
                              /\ cmd[c].image = h
                              /\ cmd[c + 1] = Transition(h, RenderTarget, ShaderResource)
                              /\ \A d \in DrawPositions : cmd[d].pass = k => d > c + 1
                  /\ bound[k].layouts[Sem(Source, 0)] = ShaderResource

C9_Witness ==
    /\ pc = "end"
    /\ NumPasses >= 2
    /\ bound[0].textures[Sem(Source, 0)] = original
    /\ bound[NumPasses - 1].textures[Sem(Source, 0)] = output_framebuffers[NumPasses - 2]
    /\ img[output_framebuffers[NumPasses - 2]].content = PassContent(NumPasses - 2, frame_no)

\* C10: the final pass renders into the viewport target and every other pass
\* into its own framebuffer; only the final pass ever writes the viewport
\* target, and no owned image holds the final pass's output.
C10_OutputTargets ==
    /\ \A c \in DrawPositions :
          /\ cmd[c].pass = NumPasses - 1 => cmd[c].image = ViewportHandle
          /\ cmd[c].pass < NumPasses - 1 =>
                /\ cmd[c].image = output_framebuffers[cmd[c].pass]
                /\ cmd[c].image # ViewportHandle
    /\ img[ViewportHandle].content.src = "pass" =>
          img[ViewportHandle].content.pass = NumPasses - 1
    /\ \A k \in Passes :
          /\ output_framebuffers[k] # ViewportHandle
          /\ img[output_framebuffers[k]].content.src = "pass" =>
                img[output_framebuffers[k]].content.pass = k /\ k < NumPasses - 1

C10_Witness ==
    /\ pc = "end"
    /\ NumPasses >= 2
    /\ img[ViewportHandle].content = PassContent(NumPasses - 1, frame_no)
    /\ img[output_framebuffers[0]].content = PassContent(0, frame_no)
    /\ \E c \in DrawPositions : cmd[c].pass = 0 /\ cmd[c].image = output_framebuffers[0]


\* the last frame() call returned the error of a draw
Aborted ==
    /\ pc = "idle"
    /\ frame_no > 0
    /\ (completed = <<>> \/ completed[Len(completed)] # frame_no)

\* C12: when draw returns an error the frame is aborted: no transition to
\* render target and no draw command is recorded for that pass, every owned
\* image is in ShaderResource state, the feedback pairs and the history ring
\* are as the call found them, and the chain is ready for the next frame().
C12_DrawErrorKeepsChainUsable ==
    Aborted =>
        /\ config[pass_index].ubo
        /\ \A c \in 1 .. Len(cmd) :
              /\ cmd[c].pass # pass_index
              /\ cmd[c].image # OutputTarget(pass_index)
        /\ \A h \in OwnedHandles : img[h].layout = ShaderResource
        /\ img[ViewportHandle].layout # Invalid
        /\ feedback_framebuffers = pre_feedback
        /\ history = history_textures
        /\ \A p \in Passes : ~Drawn(p)

\* a frame aborted at its second pass, after a frame that ran to completion
\* on a chain whose first frame was aborted too
C12_Witness ==
    /\ Aborted
    /\ pass_index = 1
    /\ frame_no = 3
    /\ completed = <<2>>
    /\ Len(cmd) > 0
    /\ img[output_framebuffers[0]].content = PassContent(0, 3)

\* C17: every OriginalHistory[i] a pass references has i below the length of
\* the ring, and the texture bound for it is a slot of the ring.
C17_HistoryIndexInRange ==
    /\ \A i \in HistoryRefs : i < max_history
    /\ \A k \in Passes :
          Drawn(k) =>
              \A t \in BoundRefs(k, OriginalHistory) : bound[k].textures[t] # NoHandle

\* the last frame() call ran to completion
Completed ==
    /\ pc = "idle"
    /\ completed # <<>>
    /\ completed[Len(completed)] = frame_no

\* C18: in a frame that completes every feedback pair is swapped once and the
\* history ring advanced once with the frame's input, after the draw of the
\* last pass; until then the pairs and the ring are as frame() found them, and
\* that is what every pass of the frame is bound to.
C18_EndOfFrameRotation ==
    /\ pc \in {"pass", "end"} =>
          /\ feedback_framebuffers = pre_feedback
          /\ feedback_inputs = pre_feedback
          /\ history = history_textures
          /\ \A k \in Passes :
                Drawn(k) =>
                    /\ \A t \in BoundRefs(k, PassFeedback) :
                          bound[k].textures[t] = pre_feedback[t.index]
                    /\ \A t \in BoundRefs(k, OriginalHistory) :
                          t.index < max_history =>
                              bound[k].textures[t] = history[t.index]
          /\ \A j \in DOMAIN history : img[history[j]].content # InputContent(frame_no)
    /\ pc = "end" => \A k \in Passes : \E c \in DrawPositions : cmd[c].pass = k
    /\ Completed =>
          /\ \A k \in Passes :
                IF IsFeedback(k)
                THEN /\ output_framebuffers[k] = pre_feedback[k]
                     /\ feedback_framebuffers[k] # pre_feedback[k]
                     /\ feedback_framebuffers[k] \in {OutHandle(k, 0), OutHandle(k, 1)}
                ELSE /\ output_framebuffers[k] = OutHandle(k, 0)
                     /\ feedback_framebuffers[k] = NoHandle
          /\ \A j \in DOMAIN history :
                /\ j = 0 =>
                      /\ history[j] = history_textures[max_history - 1]
                      /\ img[history[j]].content = InputContent(frame_no)
                /\ j > 0 =>
                      /\ history[j] = history_textures[j - 1]
                      /\ img[history[j]].content # InputContent(frame_no)

\* the second frame has completed on a chain with a feedback pass and a ring
\* of two slots
C18_Witness ==
    /\ Completed
    /\ frame_no = 2
    /\ max_history = 2
    /\ \E k \in Passes : IsFeedback(k) /\ output_framebuffers[k] = OutHandle(k, 0)
    /\ img[history[0]].content = InputContent(2)
    /\ img[history[1]].content = InputContent(1)

\* C19: the ring never changes length; the step that advances it gives the
\* slot that receives the copy the size of the frame's input, whatever the
\* sizes of the inputs before, and every other slot moves one place back with
\* the image, the size and the contents it had; no other step touches the
\* ring or a size.
C19_HistorySizeChange ==
    [][/\ DOMAIN history' = DOMAIN history
       /\ DOMAIN history_size' = DOMAIN history_size
       /\ (pc = "end" /\ max_history > 0) =>
             /\ history'[0] = history[max_history - 1]
             /\ history_size'[history'[0]] = input_size
             /\ img'[history'[0]].content = InputContent(frame_no)
             /\ \A j \in 1 .. (max_history - 1) :
                   /\ history'[j] = history[j - 1]
                   /\ history_size'[history'[j]] = history_size[history[j - 1]]
                   /\ img'[history'[j]] = img[history[j - 1]]
       /\ pc # "end" =>
             /\ history' = history
             /\ history_size' = history_size
             /\ \A j \in DOMAIN history : img'[history[j]] = img[history[j]]
      ]_frameVars

\* two frames with inputs of different sizes have gone into a ring of two
\* slots: the older slot still has the size and the contents of the first
C19_Witness ==
    /\ Completed
    /\ frame_no = 2
    /\ max_history = 2
    /\ input_size # InitialSize
    /\ history_size[history[0]] = input_size
    /\ history_size[history[1]] = InitialSize
    /\ img[history[0]].content = InputContent(2)
    /\ img[history[1]].content = InputContent(1)

\* ------------------------------------------------------------ image model
\* OwnedImage (librashader-runtime-d3d12/src/framebuffer.rs)

MaxDim == 2

VARIABLES
    device,     \* the formats the device supports as render target, and with mipmaps
    owned,      \* the OwnedImage: handle, size, format, max_mipmap
    live,       \* handles of the resources the allocator holds
    last,       \* the last call if it was scale: arguments, result, allocator operations
    res_state,  \* resource -> its D3D12 resource state
    untouched,  \* the backings no barrier has been recorded on yet
    trace       \* the last call on the image: what it locked, allocated and recorded

imageVars == <<device, owned, live, last, res_state, untouched, trace>>

\* enum ImageFormat (a part of it)
Unknown == "Unknown"
R8G8B8A8Unorm == "R8G8B8A8Unorm"
R8G8B8A8Srgb == "R8G8B8A8Srgb"
R16G16B16A16Sfloat == "R16G16B16A16Sfloat"
ImageFormats == {Unknown, R8G8B8A8Unorm, R8G8B8A8Srgb, R16G16B16A16Sfloat}

Devices ==
    {[formats |-> ImageFormats \ {Unknown}, mip_formats |-> ImageFormats \ {Unknown}],
     [formats |-> {R8G8B8A8Unorm, R16G16B16A16Sfloat}, mip_formats |-> {R8G8B8A8Unorm}]}

Size(w, h) == [width |-> w, height |-> h]

\* enum ScaleType, struct Scaling (factor as a fraction num/den; Absolute: num pixels)
Input == "Input"
Absolute == "Absolute"
Viewport == "Viewport"
OriginalScale == "Original"
Scaling(t, n, d) == [scale_type |-> t, num |-> n, den |-> d]

ScaleAxes ==
    {Scaling(Input, 1, 2), Scaling(Input, 1, 1), Scaling(Absolute, 0, 1)}

\* struct Scale2D
Scalings ==
    {[x |-> a, y |-> a] : a \in ScaleAxes}
        \cup {[x |-> Scaling(Viewport, 1, 1), y |-> Scaling(OriginalScale, 1, 2)]}

SourceSizes == {Size(0, 0), Size(MaxDim, MaxDim), Size(1, MaxDim)}
ViewportSizes == {Size(MaxDim + 1, MaxDim + 1)}
OriginalSizes == {Size(1, MaxDim + 2)}

ScaleArgs ==
    [scaling : Scalings, format : {Unknown, R16G16B16A16Sfloat},
     viewport_size : ViewportSizes, source_size : SourceSizes,
     original_size : OriginalSizes, mipmap : BOOLEAN]

\* f32::round of base * num / den for a base >= 0: half away from zero
RoundScaled(base, n, d) == (2 * base * n + d) \div (2 * d)

ScaleAxis(s, source, viewport, orig) ==
    CASE s.scale_type = Input -> RoundScaled(source, s.num, s.den)
      [] s.scale_type = Viewport -> RoundScaled(viewport, s.num, s.den)
      [] s.scale_type = OriginalScale -> RoundScaled(orig, s.num, s.den)
      [] OTHER -> s.num

AtLeastOne(n) == IF n < 1 THEN 1 ELSE n

\* ViewportSize::scale_viewport
scale_viewport(source_size, scaling, viewport_size, original_size) ==
    Size(AtLeastOne(ScaleAxis(scaling.x, source_size.width, viewport_size.width,
                              original_size.width)),
         AtLeastOne(ScaleAxis(scaling.y, source_size.height, viewport_size.height,
                              original_size.height)))

Max(a, b) == IF a >= b THEN a ELSE b

RECURSIVE Levels(_)
Levels(n) == IF n = 0 THEN 0 ELSE 1 + Levels(n \div 2)

\* MipmapSize::calculate_miplevels
calculate_miplevels(size) == Levels(Max(size.width, size.height))

\* util::d3d12_get_closest_format
d3d12_get_closest_format(format, mipmap) ==
    LET supported == IF mipmap THEN device.mip_formats ELSE device.formats
    IN  IF format \in supported THEN format ELSE R8G8B8A8Unorm

\* OwnedImage::get_format_support
get_format_support(format, mipmap) == d3d12_get_closest_format(format, mipmap)

\* the levels are computed whether or not mipmaps are asked for
MipLevelsAlways(size, mipmap) == calculate_miplevels(size)

\* OwnedImage::new: let miplevels = if mipmap { size.calculate_miplevels() } else { 1 }
MipLevels(size, mipmap) == IF mipmap THEN calculate_miplevels(size) ELSE 1

\* the handle create_resource returns: one the allocator does not hold
FreshHandle == CHOOSE h \in 1 .. (Cardinality(live) + 1) : h \notin live

\* the image records its size with the axes exchanged
NewImageTransposed(size, format, mipmap) ==
    [handle |-> FreshHandle,
     size |-> Size(size.height, size.width),
     format |-> d3d12_get_closest_format(format, mipmap),
     max_mipmap |-> MipLevels(size, mipmap)]

\* OwnedImage::new, when create_resource succeeds
NewImage(size, format, mipmap) ==
    [handle |-> FreshHandle,
     size |-> size,
     format |-> d3d12_get_closest_format(format, mipmap),
     max_mipmap |-> MipLevels(size, mipmap)]

\* the test without the comparison of the formats
NeedsReallocNoFormat(image, size, format, mipmap) ==
    \/ image.size # size
    \/ (mipmap /\ image.max_mipmap = 1)
    \/ (~mipmap /\ image.max_mipmap # 1)

\* OwnedImage::scale: the test that decides the reallocation
NeedsRealloc(image, size, format, mipmap) ==
    \/ image.size # size
    \/ (mipmap /\ image.max_mipmap = 1)
    \/ (~mipmap /\ image.max_mipmap # 1)
    \/ format # image.format

NoCall == [called |-> FALSE]

Create(h) == [op |-> "create_resource", handle |-> h]
CreateFailed == [op |-> "create_resource failed", handle |-> NoHandle]
Free(h) == [op |-> "free_resource", handle |-> h]

\* the call repeats the arguments of the call before it, which returned Ok
Repeats(a) == last.called /\ last.ok /\ last.args = a

\* the texture the caller hands to copy_from
InputTex == 0

\* events of a call: the allocator mutex, the allocator and the command list
Lock == [op |-> "lock", handle |-> NoHandle]
Unlock == [op |-> "unlock", handle |-> NoHandle]
Barrier(h, from, to) == [op |-> "barrier", handle |-> h, from |-> from, to |-> to]
ClearRenderTargetView(h) == [op |-> "clear", handle |-> h, color |-> <<0, 0, 0, 0>>]
CopyTextureRegion(dst, src) == [op |-> "copy", handle |-> dst, source |-> src]

\* the resource is created in the common state
InitialStateCommon == "Common"

\* OwnedImage::new: initial_state_or_layout of the resource
InitialState == ShaderResource

\* the guard is not released after create_resource
new_events_guard_kept(h) == <<Lock, Create(h)>>

\* OwnedImage::new: allocator.lock().create_resource(..)
new_events(h) == <<Lock, Create(h), Unlock>>

\* the old backing is freed before the new one is asked for
new_error_events_old_freed ==
    <<Lock, Free(owned.handle), Unlock, Lock, CreateFailed, Unlock>>

\* OwnedImage::new: allocator.lock().create_resource(..)? returns the error
new_error_events == <<Lock, CreateFailed, Unlock>>

\* the image goes away without handing its resource back
drop_events_leak(h) == <<Lock, Unlock>>

\* Drop for OwnedImage: self.allocator.lock().free_resource(resource)
drop_events(h) == <<Lock, Free(h), Unlock>>

\* OwnedImage::clear returns Ok
clear_commands(h) ==
    <<Barrier(h, ShaderResource, RenderTarget),
      ClearRenderTargetView(h),
      Barrier(h, RenderTarget, ShaderResource)>>

\* OwnedImage::clear returns the error of create_render_target_view
clear_error_commands(h) == <<Barrier(h, ShaderResource, RenderTarget)>>

\* OwnedImage::copy_from
copy_from_commands(h, input) ==
    <<Barrier(input, ShaderResource, CopySource),
      Barrier(h, ShaderResource, CopyDest),
      CopyTextureRegion(h, input),
      Barrier(input, CopySource, ShaderResource),
      Barrier(h, CopyDest, ShaderResource)>>

\* A barrier whose before-state is not the resource's state leaves it Invalid.
RECURSIVE ApplyBarriers(_, _)
ApplyBarriers(st, es) ==
    IF es = <<>> THEN st
    ELSE LET e == Head(es)
         IN  ApplyBarriers(
                IF e.op = "barrier"
                THEN [st EXCEPT ![e.handle] = IF st[e.handle] = e.from THEN e.to ELSE Invalid]
                ELSE st,
                Tail(es))

Call(op, ok, events) ==
    [op |-> op, ok |-> ok, fresh |-> owned.handle \in untouched, events |-> events]

\* the image has been dropped: no method can be called on it
Dropped == trace.op = "drop"

\* what the allocator holds after the calls among the events
RECURSIVE AllocatorApply(_, _)
AllocatorApply(held, es) ==
    IF es = <<>> THEN held
    ELSE LET e == Head(es)
         IN  AllocatorApply(
                IF e.op = "create_resource" THEN held \cup {e.handle}
                ELSE IF e.op = "free_resource" THEN held \ {e.handle}
                ELSE held,
                Tail(es))

\* OwnedImage::scale returns Ok(size)
Scale(a) ==
    LET size == scale_viewport(a.source_size, a.scaling, a.viewport_size, a.original_size)
        format == get_format_support(a.format, a.mipmap)
        realloc == NeedsRealloc(owned, size, format, a.mipmap)
        new == NewImage(size, format, a.mipmap)
    IN  /\ ~Dropped
        /\ owned' = IF realloc THEN new ELSE owned
        /\ live' = IF realloc THEN (live \cup {new.handle}) \ {owned.handle} ELSE live
        /\ last' = [called |-> TRUE, args |-> a, ok |-> TRUE, result |-> size,
                    format |-> format, old |-> owned, repeat |-> Repeats(a),
                    ops |-> IF realloc THEN <<Create(new.handle), Free(owned.handle)>>
                            ELSE <<>>]
        /\ res_state' =
              IF realloc
              THEN [h \in (DOMAIN res_state \cup {new.handle}) \ {owned.handle} |->
                        IF h = new.handle THEN InitialState ELSE res_state[h]]
              ELSE res_state
        /\ untouched' = IF realloc THEN {new.handle} ELSE untouched
        /\ trace' = Call("scale", TRUE,
                         IF realloc THEN new_events(new.handle) \o drop_events(owned.handle)
                         ELSE <<>>)
        /\ UNCHANGED device

\* OwnedImage::scale returns the error of OwnedImage::new
ScaleFail(a) ==
    LET size == scale_viewport(a.source_size, a.scaling, a.viewport_size, a.original_size)
        format == get_format_support(a.format, a.mipmap)
    IN  /\ ~Dropped
        /\ NeedsRealloc(owned, size, format, a.mipmap)
        /\ last' = [called |-> TRUE, args |-> a, ok |-> FALSE, result |-> size,
                    format |-> format, old |-> owned, repeat |-> Repeats(a),
                    ops |-> <<CreateFailed>>]
        /\ trace' = Call("scale", FALSE, new_error_events)
        /\ UNCHANGED <<device, owned, live, res_state, untouched>>

\* the commands of a call are recorded on the command list
Record(op, ok, events) ==
    /\ ~Dropped
    /\ res_state' = ApplyBarriers(res_state, events)
    /\ untouched' = untouched \ {owned.handle}
    /\ trace' = Call(op, ok, events)
    /\ last' = NoCall
    /\ UNCHANGED <<device, owned, live>>

\* OwnedImage::clear returns Ok
ClearImage == Record("clear", TRUE, clear_commands(owned.handle))

\* OwnedImage::clear returns the error of create_render_target_view(heap)?
ClearImageFail == Record("clear", FALSE, clear_error_commands(owned.handle))

\* OwnedImage::copy_from, the input in pixel-shader-resource state
CopyFrom == Record("copy_from", TRUE, copy_from_commands(owned.handle, InputTex))

\* Drop for OwnedImage: the owner lets go of the image
DropImage ==
    /\ ~Dropped
    /\ live' = AllocatorApply(live, drop_events(owned.handle))
    /\ res_state' = [h \in DOMAIN res_state \ {owned.handle} |-> res_state[h]]
    /\ untouched' = {}
    /\ trace' = Call("drop", TRUE, drop_events(owned.handle))
    /\ last' = NoCall
    /\ UNCHANGED <<device, owned>>

\* the image the chain builds for a pass: 1x1, no mipmaps
ImageStart(d) ==
    /\ device = d
    /\ owned = [handle |-> 1, size |-> Size(1, 1),
                format |-> IF R8G8B8A8Unorm \in d.formats THEN R8G8B8A8Unorm ELSE Unknown,
                max_mipmap |-> 1]
    /\ live = {1}
    /\ last = NoCall
    /\ res_state = [h \in {InputTex, 1} |-> IF h = InputTex THEN ShaderResource
                                            ELSE InitialState]
    /\ untouched = {1}
    /\ trace = [op |-> "new", ok |-> TRUE, fresh |-> TRUE, events |-> new_events(1)]

ImageInit == \E d \in Devices : ImageStart(d)

ImageParked == ImageStart(CHOOSE d \in Devices : d.formats = ImageFormats \ {Unknown})

ImageNext ==
    \/ \E a \in ScaleArgs : Scale(a)
    \/ \E a \in ScaleArgs : ScaleFail(a)
    \/ ClearImage
    \/ ClearImageFail
    \/ CopyFrom
    \/ DropImage

\* ------------------------------------------------ properties of the image

\* C4: a scale call that repeats the arguments of the call before it, which
\* returned Ok, allocates nothing and frees nothing.
C4_ScaleIdempotent ==
    (last.called /\ last.ok /\ last.repeat) => last.ops = <<>>

\* C5: scale allocates a new backing exactly when the computed size differs
\* from the image's, or the mipmap request differs from (max_mipmap > 1), or
\* the resolved format differs from the image's; when it does and the
\* allocation succeeds the image holds the new backing and the old one is
\* freed, and otherwise the image keeps its backing.
C5_ReallocIff ==
    last.called =>
        LET cond == \/ last.result # last.old.size
                    \/ last.args.mipmap # (last.old.max_mipmap > 1)
                    \/ last.format # last.old.format
        IN  /\ last.ops # <<>> <=> cond
            /\ (last.ok /\ cond) =>
                  /\ owned.handle # last.old.handle
                  /\ last.ops = <<Create(owned.handle), Free(last.old.handle)>>
                  /\ owned.size = last.result
                  /\ live = {owned.handle}
            /\ (~last.ok \/ ~cond) =>
                  /\ owned = last.old
                  /\ \A i \in 1 .. Len(last.ops) : last.ops[i].op # "free_resource"
            /\ ~cond => last.ok

C5_Witness ==
    /\ last.called
    /\ last.ok
    /\ last.ops = <<>>
    /\ last.args.mipmap
    /\ owned.max_mipmap > 1
    /\ last.args.format # last.format
    /\ last.args.format # Unknown
    /\ ~last.repeat

\* the allocator mutex is held before event i of the events es
Held(es, i) ==
    Cardinality({j \in 1 .. (i - 1) : es[j].op = "lock"})
        > Cardinality({j \in 1 .. (i - 1) : es[j].op = "unlock"})

AllocatorCalls == {"create_resource", "create_resource failed", "free_resource"}
Commands == {"barrier", "clear", "copy"}

\* C13: the allocator mutex is held for one create_resource or free_resource
\* call at a time: every lock is followed by one allocator call and then the
\* unlock, the allocator is called only under the lock, no barrier, clear or
\* copy is recorded while it is held, it is never taken while held, and it is
\* free when the call returns.
C13_AllocatorLock ==
    LET es == trace.events
    IN  /\ \A i \in 1 .. Len(es) :
              /\ es[i].op = "lock" =>
                    /\ ~Held(es, i)
                    /\ i + 2 <= Len(es)
                    /\ es[i + 1].op \in AllocatorCalls
                    /\ es[i + 2].op = "unlock"
              /\ es[i].op \in AllocatorCalls => (i > 1 /\ es[i - 1].op = "lock")
              /\ es[i].op \in Commands => ~Held(es, i)
              /\ es[i].op = "unlock" => Held(es, i)
        /\ ~Held(es, Len(es) + 1)

\* a scale call that allocated the new backing and freed the old one
C13_Witness ==
    /\ trace.op = "scale"
    /\ trace.ok
    /\ Len(trace.events) = 6
    /\ trace.events[2] = Create(owned.handle)
    /\ trace.events[4] = Lock
    /\ trace.events[5].op = "free_resource"

\* C14: a clear that returns Ok records ShaderResource -> RenderTarget, the
\* clear to (0,0,0,0) and RenderTarget -> ShaderResource, in that order; a
\* copy_from that returns Ok records the transitions of the source to
\* CopySource and of the destination to CopyDest, the copy, and both back to
\* ShaderResource; after either every image involved is in ShaderResource
\* state.
C14_ClearCopyConformance ==
    LET h == owned.handle
    IN  /\ (trace.op = "clear" /\ trace.ok) =>
              /\ trace.events = <<Barrier(h, ShaderResource, RenderTarget),
                                  ClearRenderTargetView(h),
                                  Barrier(h, RenderTarget, ShaderResource)>>
              /\ res_state[h] = ShaderResource
        /\ (trace.op = "copy_from" /\ trace.ok) =>
              /\ trace.events = <<Barrier(InputTex, ShaderResource, CopySource),
                                  Barrier(h, ShaderResource, CopyDest),
                                  CopyTextureRegion(h, InputTex),
                                  Barrier(InputTex, CopySource, ShaderResource),
                                  Barrier(h, CopyDest, ShaderResource)>>
              /\ res_state[h] = ShaderResource
              /\ res_state[InputTex] = ShaderResource

\* C15: every backing of an OwnedImage is created in ShaderResource state,
\* the first one and each one scale allocates; so the first transition
\* recorded on a fresh backing starts from the state the backing is in.
C15_InitialShaderResource ==
    /\ \A h \in untouched : res_state[h] = ShaderResource
    /\ \A i \in 1 .. Len(trace.events) :
          trace.events[i].op = "create_resource" =>
              res_state[trace.events[i].handle] = ShaderResource
    /\ (trace.fresh /\ trace.op \in {"clear", "copy_from"}) =>
          /\ \E i \in 1 .. Len(trace.events) :
                /\ trace.events[i].op = "barrier"
                /\ trace.events[i].handle = owned.handle
                /\ trace.events[i].from = ShaderResource
                /\ \A j \in 1 .. (i - 1) : trace.events[j].handle # owned.handle
          /\ res_state[owned.handle] # Invalid

\* a clear recorded on a backing that scale has just allocated
C15_Witness ==
    /\ trace.op = "clear"
    /\ trace.fresh
    /\ trace.ok
    /\ owned.handle = 2
    /\ owned.max_mipmap > 1
    /\ res_state[owned.handle] = ShaderResource

\* C16: after a scale call that returns Ok the image's size is the size the
\* call returned and its format the resolved format, and the returned width
\* and height are at least 1 whatever the scaling and the sizes given.
C16_ScaleSizeAtLeastOne ==
    (last.called /\ last.ok) =>
        /\ owned.size = last.result
        /\ owned.format = last.format
        /\ last.result.width >= 1
        /\ last.result.height >= 1

\* a source of size 0x0 scaled by a half: both axes clamped to 1
C16_Witness ==
    /\ last.called
    /\ last.ok
    /\ last.args.source_size = Size(0, 0)
    /\ last.args.scaling.x = Scaling(Input, 1, 2)
    /\ last.old.size # Size(1, 1)
    /\ owned.size = Size(1, 1)

\* C22: when the allocation of the new backing fails, scale returns the error
\* and the image keeps its handle, size, format and mip-level count; the
\* backing it had is still allocated and no free was issued.
C22_ScaleAtomicOnFailure ==
    (last.called /\ ~last.ok) =>
        /\ trace.op = "scale" /\ ~trace.ok
        /\ owned = last.old
        /\ owned.handle \in live
        /\ live = {owned.handle}
        /\ \A i \in 1 .. Len(trace.events) : trace.events[i].op # "free_resource"
        /\ \A i \in 1 .. Len(last.ops) : last.ops[i].op # "free_resource"
        /\ \E i \in 1 .. Len(trace.events) : trace.events[i] = CreateFailed

\* a scale to another size failed
C22_Witness ==
    /\ last.called
    /\ ~last.ok
    /\ last.result # owned.size
    /\ owned.size = Size(MaxDim, MaxDim)
    /\ owned.handle \in live

\* the positions of the events of the last call with the operation op
EventsOf(op) == {i \in 1 .. Len(trace.events) : trace.events[i].op = op}

C23_ClearErrorKeepsState ==
    (trace.op = "clear" /\ ~trace.ok) => res_state[owned.handle] = ShaderResource

\* floor(log2(n)) + 1 for n >= 1
FloorLog2Plus1(n) == CHOOSE l \in 1 .. (n + 1) : 2 ^ (l - 1) <= n /\ n < 2 ^ l

\* C24 as stated: after a successful scale max_mipmap is
\* floor(log2(max(w,h))) + 1 when mipmaps were asked for and 1 otherwise, and
\* max_mipmap > 1 exactly when mipmaps were asked for.
C24_MipLevelCount ==
    (last.called /\ last.ok) =>
        /\ owned.max_mipmap =
              IF last.args.mipmap
              THEN FloorLog2Plus1(Max(owned.size.width, owned.size.height))
              ELSE 1
        /\ (owned.max_mipmap > 1) = last.args.mipmap

\* C24 amended: after a successful scale max_mipmap is
\* floor(log2(max(w,h))) + 1 when mipmaps were asked for and 1 otherwise;
\* max_mipmap > 1 exactly when mipmaps were asked for and the size is not 1x1,
\* and a 1x1 image has max_mipmap 1 whatever was asked for.
C24_MipLevelCountAmended ==
    (last.called /\ last.ok) =>
        /\ owned.size = last.result
        /\ owned.max_mipmap =
              IF last.args.mipmap
              THEN FloorLog2Plus1(Max(owned.size.width, owned.size.height))
              ELSE 1
        /\ (owned.max_mipmap > 1) =
              (last.args.mipmap /\ Max(owned.size.width, owned.size.height) >= 2)
        /\ owned.size = Size(1, 1) => owned.max_mipmap = 1

\* a 1x1 image allocated with mipmaps asked for
C24_Witness ==
    /\ last.called
    /\ last.ok
    /\ last.args.mipmap
    /\ last.ops # <<>>
    /\ owned.size = Size(1, 1)
    /\ owned.max_mipmap = 1

\* ------------------------------------------------------------- name model
\* TextureSemantics (librashader-reflect/src/reflect/semantics.rs)

MaxDigit == 2

VARIABLES
    name,        \* the texture name to classify, a sequence of characters
    classified   \* the classification of name, once made

nameVars == <<name, classified>>

Chars_Original == <<"O", "r", "i", "g", "i", "n", "a", "l">>
Chars_Source == <<"S", "o", "u", "r", "c", "e">>
Chars_History == <<"H", "i", "s", "t", "o", "r", "y">>
Chars_PassOutput == <<"P", "a", "s", "s", "O", "u", "t", "p", "u", "t">>
Chars_PassFeedback == <<"P", "a", "s", "s", "F", "e", "e", "d", "b", "a", "c", "k">>
Chars_User == <<"U", "s", "e", "r">>
Chars_Size == <<"S", "i", "z", "e">>

DigitChars == <<"0", "1", "2", "3", "4", "5", "6", "7", "8", "9">>

TextureSemanticsAll == {Original, Source, OriginalHistory, PassOutput, PassFeedback, User}

\* TextureSemantics::texture_name
texture_name(s) ==
    CASE s = Original -> Chars_Original
      [] s = Source -> Chars_Source
      [] s = OriginalHistory -> Chars_Original \o Chars_History
      [] s = PassOutput -> Chars_PassOutput
      [] s = PassFeedback -> Chars_PassFeedback
      [] s = User -> Chars_User

\* the order of the enum's declaration
TEXTURE_SEMANTICS_AS_DECLARED ==
    <<Original, Source, OriginalHistory, PassOutput, PassFeedback, User>>

\* TextureSemantics::TEXTURE_SEMANTICS
TEXTURE_SEMANTICS ==
    <<Source, OriginalHistory, Original, PassOutput, PassFeedback, User>>

\* str::starts_with
StartsWith(n, prefix) ==
    /\ Len(prefix) <= Len(n)
    /\ SubSeq(n, 1, Len(prefix)) = prefix

DigitValue(c) == (CHOOSE d \in 1 .. 10 : DigitChars[d] = c) - 1

IsDigit(c) == \E d \in 1 .. 10 : DigitChars[d] = c

RECURSIVE Decimal(_)
Decimal(cs) ==
    IF cs = <<>> THEN 0
    ELSE 10 * Decimal(SubSeq(cs, 1, Len(cs) - 1)) + DigitValue(cs[Len(cs)])

\* an index suffix: decimal digits, no leading zero but in "0", at most 255
IsIndex(cs) ==
    /\ cs # <<>>
    /\ \A i \in 1 .. Len(cs) : IsDigit(cs[i])
    /\ (Len(cs) > 1 => cs[1] # "0")
    /\ Len(cs) <= 3
    /\ Decimal(cs) <= 255

NoMatch == [semantics |-> "None", index |-> 0, status |-> "NoMatch"]

\* the positions of TEXTURE_SEMANTICS whose texture name starts n
Matches(n) ==
    {i \in 1 .. Len(TEXTURE_SEMANTICS) : StartsWith(n, texture_name(TEXTURE_SEMANTICS[i]))}

\* the classification of a texture name: the first semantic in TEXTURE_SEMANTICS
\* whose name starts it, then the index after it
get_texture_semantic(n) ==
    IF Matches(n) = {} THEN NoMatch
    ELSE LET first == CHOOSE i \in Matches(n) : \A j \in Matches(n) : i <= j
             sem == TEXTURE_SEMANTICS[first]
             rest == SubSeq(n, Len(texture_name(sem)) + 1, Len(n))
         IN  IF is_array(sem)
             THEN IF IsIndex(rest)
                  THEN [semantics |-> sem, index |-> Decimal(rest), status |-> "Ok"]
                  ELSE [semantics |-> sem, index |-> 0, status |-> "IndexMalformed"]
             ELSE IF rest = <<>>
                  THEN [semantics |-> sem, index |-> 0, status |-> "Ok"]
                  ELSE [semantics |-> sem, index |-> 0, status |-> "NoMatch"]

Digits == {<<DigitChars[d + 1]>> : d \in 0 .. MaxDigit}

NameSuffixes ==
    {a \o b \o c : a \in Digits \cup {<<>>}, b \in Digits \cup {<<>>},
                   c \in {<<>>, Chars_Size, <<"X">>}}

NamePrefixes ==
    {texture_name(s) : s \in TextureSemanticsAll}
        \cup {<<"O", "r", "i", "g">>, <<"M", "y">> \o Chars_Source}

Names == {p \o x : p \in NamePrefixes, x \in NameSuffixes}

Pending == [semantics |-> "None", index |-> 0, status |-> "Pending"]

Classify ==
    /\ classified = Pending
    /\ classified' = get_texture_semantic(name)
    /\ UNCHANGED name

NameStart(n) ==
    /\ name = n
    /\ classified = Pending

NameInit == \E n \in Names : NameStart(n)

NameParked == NameStart(Chars_Source)

NameNext == Classify

\* ------------------------------------------------- properties of the names

ProperPrefix(a, b) == Len(a) < Len(b) /\ StartsWith(b, a)

\* C6: the matching order is Source, OriginalHistory, Original, PassOutput,
\* PassFeedback, User; no semantic whose name is a proper prefix of another
\* semantic's name comes before it in that order; and a name that starts with
\* OriginalHistory is classified as OriginalHistory, never as Original.
C6_NamePrecedence ==
    /\ TEXTURE_SEMANTICS = <<Source, OriginalHistory, Original, PassOutput, PassFeedback, User>>
    /\ \A i, j \in 1 .. Len(TEXTURE_SEMANTICS) :
          i < j => ~ProperPrefix(texture_name(TEXTURE_SEMANTICS[i]),
                                 texture_name(TEXTURE_SEMANTICS[j]))
    /\ (classified # Pending /\ StartsWith(name, texture_name(OriginalHistory))) =>
          /\ classified.semantics = OriginalHistory
          /\ classified.semantics # Original

C6_Witness ==
    /\ name = texture_name(OriginalHistory) \o <<"1">> \o Chars_Size
    /\ classified.semantics = OriginalHistory
    /\ classified.status = "IndexMalformed"

\* ------------------------------------------------------------- load model
\* FilterChain::load_from_preset (librashader-runtime-d3d11/src/filter_chain.rs)

MaxShaders == 2

VARIABLES
    preset,              \* ShaderPreset: shaders (id, alias, parameters), textures (names)
    load_pc,             \* the step load_from_preset is at
    load_index,          \* the pass the running loop is at
    uniform_semantics,   \* name -> UniformSemantic
    texture_semantics,   \* name -> SemanticMap<TextureSemantics>
    sem_before,          \* both maps as the last load_pass_semantics call found them
    filters,             \* the passes init_passes has built
    fault,               \* the step that failed, "none" while none has
    load_result          \* "running" | "Ok" | "Err" | "Panic", and the chain returned

loadVars == <<preset, load_pc, load_index, uniform_semantics, texture_semantics,
              sem_before, filters, fault, load_result>>

Chars_Feedback == <<"F", "e", "e", "d", "b", "a", "c", "k">>

\* Option<String>
None == [some |-> FALSE, value |-> <<>>]
Some(v) == [some |-> TRUE, value |-> v]

Aliases ==
    {None, Some(<<>>), Some(<<" ">>), Some(<<"A">>), Some(<<"A">> \o Chars_Feedback)}

ParameterSets == {{}, {<<"P">>}, {<<"A">> \o Chars_Size}}

\* struct ShaderPassConfig with the parameters of its source; id is the
\* position of the pass in the preset
ShaderPassConfig(i, alias, parameters) ==
    [id |-> i, alias |-> alias, parameters |-> parameters]

ShaderLists(n) ==
    {[i \in 1 .. n |-> ShaderPassConfig(i - 1, alias[i], parameters[i])] :
        alias \in [1 .. n -> Aliases], parameters \in [1 .. n -> ParameterSets]}

TextureLists == {<<>>, <<(<<"L">>)>>, <<(<<"A">>)>>}

\* struct ShaderPreset
Presets ==
    {[shaders |-> sh, textures |-> tx] :
        sh \in UNION {ShaderLists(n) : n \in 1 .. MaxShaders}, tx \in TextureLists}

\* HashMap::new, HashMap::insert
EmptyMap == [n \in {} |-> 0]
InsertIfAbsent(m, n, v) == [x \in DOMAIN m \cup {n} |-> IF x \in DOMAIN m THEN m[x] ELSE v]
Insert(m, n, v) == [x \in DOMAIN m \cup {n} |-> IF x = n THEN v ELSE m[x]]

\* UniformSemantic::Variable(FloatParameter), UniformSemantic::Texture(..)
FloatParameter == [kind |-> "Variable", semantics |-> "FloatParameter", index |-> 0]
TextureSize(s, i) == [kind |-> "Texture", semantics |-> s, index |-> i]

Whitespace == {" ", "\t", "\n"}

\* an alias is ignored only when it is empty
IsBlankNoTrim(a) == a = <<>>

\* alias.trim().is_empty()
IsBlank(a) == \A i \in 1 .. Len(a) : a[i] \in Whitespace

\* FilterChain::load_pass_semantics
load_pass_semantics(u, t, cfg) ==
    IF ~cfg.alias.some \/ IsBlank(cfg.alias.value)
    THEN [uniform |-> u, texture |-> t]
    ELSE LET alias == cfg.alias.value
             index == cfg.id
             t1 == Insert(t, alias, Sem(PassOutput, index))
             u1 == Insert(u, alias \o Chars_Size, TextureSize(PassOutput, index))
             t2 == Insert(t1, alias \o Chars_Feedback, Sem(PassFeedback, index))
             u2 == Insert(u1, alias \o Chars_Feedback \o Chars_Size,
                          TextureSize(PassFeedback, index))
         IN  [uniform |-> u2, texture |-> t2]

RECURSIVE InsertAll(_, _, _)
InsertAll(m, names, v) ==
    IF names = {} THEN m
    ELSE LET n == CHOOSE x \in names : TRUE
         IN  InsertAll(Insert(m, n, v), names \ {n}, v)

Running == [status |-> "running", passes |-> <<>>]

\* the call returns, its locals are dropped
Return(status, passes) ==
    /\ load_pc' = "done"
    /\ load_result' = [status |-> status, passes |-> passes]
    /\ uniform_semantics' = EmptyMap
    /\ texture_semantics' = EmptyMap
    /\ filters' = <<>>

NumShaders == Len(preset.shaders)

\* load_preset, the closure of the map over preset.shaders: the source loads
\* and compiles, its parameters are registered
LoadSource(i) ==
    /\ load_pc = "load_preset"
    /\ load_index = i
    /\ uniform_semantics' =
          InsertAll(uniform_semantics, preset.shaders[i + 1].parameters, FloatParameter)
    /\ load_index' = IF i + 1 < NumShaders THEN i + 1 ELSE 0
    /\ load_pc' = IF i + 1 < NumShaders THEN "load_preset" ELSE "pass_semantics"
    /\ UNCHANGED <<preset, texture_semantics, sem_before, filters, fault, load_result>>

\* ShaderSource::load, GlslangCompilation::compile or HLSL::from_compilation
\* fails: collect stops and load_preset returns the error with `?`
LoadSourceErr(i, stage) ==
    /\ load_pc = "load_preset"
    /\ load_index = i
    /\ fault' = stage
    /\ Return("Err", <<>>)
    /\ UNCHANGED <<preset, load_index, sem_before>>

\* load_preset, the loop over the passes
LoadPassSemantics(i) ==
    /\ load_pc = "pass_semantics"
    /\ load_index = i
    /\ LET r == load_pass_semantics(uniform_semantics, texture_semantics,
                                    preset.shaders[i + 1])
       IN  /\ uniform_semantics' = r.uniform
           /\ texture_semantics' = r.texture
    /\ sem_before' = [uniform |-> uniform_semantics, texture |-> texture_semantics]
    /\ load_index' = IF i + 1 < NumShaders THEN i + 1 ELSE 0
    /\ load_pc' = IF i + 1 < NumShaders THEN "pass_semantics" ELSE "texture_semantics"
    /\ UNCHANGED <<preset, filters, fault, load_result>>

RECURSIVE InsertTextures(_, _, _)
InsertTextures(m, textures, i) ==
    IF i > Len(textures) THEN m
    ELSE InsertTextures(
            [uniform |-> Insert(m.uniform, textures[i] \o Chars_Size, TextureSize(User, i - 1)),
             texture |-> Insert(m.texture, textures[i], Sem(User, i - 1))],
            textures, i + 1)

\* load_preset, the loop over preset.textures
LoadTextureSemantics ==
    /\ load_pc = "texture_semantics"
    /\ LET r == InsertTextures([uniform |-> uniform_semantics, texture |-> texture_semantics],
                               preset.textures, 1)
       IN  /\ uniform_semantics' = r.uniform
           /\ texture_semantics' = r.texture
    /\ load_pc' = "samplers"
    /\ UNCHANGED <<preset, load_index, sem_before, filters, fault, load_result>>

\* SamplerSet::new(device)?
SamplerSetNew ==
    /\ load_pc = "samplers"
    /\ load_pc' = "init_passes"
    /\ UNCHANGED <<preset, load_index, uniform_semantics, texture_semantics, sem_before,
                   filters, fault, load_result>>

SamplerSetNewErr ==
    /\ load_pc = "samplers"
    /\ fault' = "samplers"
    /\ Return("Err", <<>>)
    /\ UNCHANGED <<preset, load_index, sem_before>>

\* Option<ConstantBufferBinding>
NoBuffer == [some |-> FALSE, binding |-> 0, size |-> 0]
ConstantBufferBinding(binding, size) == [some |-> TRUE, binding |-> binding, size |-> size]

\* Option<UboReflection>, Option<PushReflection>
NoBlock == [some |-> FALSE, binding |-> 0, size |-> 0]
UboReflection(binding, size) == [some |-> TRUE, binding |-> binding, size |-> size]
PushReflection(size) == [some |-> TRUE, binding |-> 0, size |-> size]

\* struct ShaderReflection: the two uniform blocks of a pass
ShaderReflection(ubo, push_constant) == [ubo |-> ubo, push_constant |-> push_constant]

\* the reflection of a shader whose only block is a UBO at binding 0
PlainReflection == ShaderReflection(UboReflection(0, 16), NoBlock)

Reflections ==
    {ShaderReflection(ubo, push) :
        ubo \in {NoBlock, UboReflection(0, 0), UboReflection(0, 16), UboReflection(1, 16)},
        push \in {NoBlock, PushReflection(0), PushReflection(16)}}

\* init_passes: let ubo_cbuffer
ubo_cbuffer(reflection) ==
    IF reflection.ubo.some /\ reflection.ubo.size # 0
    THEN ConstantBufferBinding(reflection.ubo.binding, reflection.ubo.size)
    ELSE NoBuffer

\* init_passes: let push_cbuffer
push_cbuffer(reflection) ==
    IF reflection.push_constant.some /\ reflection.push_constant.size # 0
    THEN ConstantBufferBinding(IF ubo_cbuffer(reflection).some THEN 1 ELSE 0,
                               reflection.push_constant.size)
    ELSE NoBuffer

\* struct FilterPass of the d3d11 runtime
FilterPass(cfg, reflection) ==
    [id |-> cfg.id,
     reflection |-> reflection,
     uniform_buffer |-> ubo_cbuffer(reflection),
     push_buffer |-> push_cbuffer(reflection)]

\* init_passes, one turn of the loop that ends in filters.push
InitPass(i, reflection) ==
    /\ load_pc = "init_passes"
    /\ load_index = i
    /\ filters' = Append(filters, FilterPass(preset.shaders[i + 1], reflection))
    /\ load_index' = IF i + 1 < NumShaders THEN i + 1 ELSE 0
    /\ load_pc' = IF i + 1 < NumShaders THEN "init_passes" ELSE "luts"
    /\ UNCHANGED <<preset, uniform_semantics, texture_semantics, sem_before, fault,
                   load_result>>

\* the result of init_passes(..).unwrap() when init_passes returns Err
UnwrapErr == "Panic"

\* init_passes: reflect, compile, a shader or a constant buffer fails and the
\* function returns the error with `?`; load_from_preset unwraps the result
InitPassErr(i, stage) ==
    /\ load_pc = "init_passes"
    /\ load_index = i
    /\ fault' = stage
    /\ Return(UnwrapErr, <<>>)
    /\ UNCHANGED <<preset, load_index, sem_before>>

\* load_luts(..)? and the FilterChain returned
LoadLuts ==
    /\ load_pc = "luts"
    /\ load_pc' = "done"
    /\ load_result' = [status |-> "Ok", passes |-> filters]
    /\ UNCHANGED <<preset, load_index, uniform_semantics, texture_semantics, sem_before,
                   filters, fault>>

LoadLutsErr ==
    /\ load_pc = "luts"
    /\ Len(preset.textures) > 0
    /\ fault' = "luts"
    /\ Return("Err", <<>>)
    /\ UNCHANGED <<preset, load_index, sem_before>>

SourceStages == {"source", "glslang"}
PassStages == {"reflect", "compile", "constant_buffer"}

LoadStart(p) ==
    /\ preset = p
    /\ load_pc = "load_preset"
    /\ load_index = 0
    /\ uniform_semantics = EmptyMap
    /\ texture_semantics = EmptyMap
    /\ sem_before = [uniform |-> EmptyMap, texture |-> EmptyMap]
    /\ filters = <<>>
    /\ fault = "none"
    /\ load_result = Running

LoadInit == \E p \in Presets : LoadStart(p)

LoadParked ==
    LoadStart([shaders |-> <<ShaderPassConfig(0, None, {})>>, textures |-> <<>>])

LoadNext ==
    \/ \E i \in 0 .. (MaxShaders - 1) : LoadSource(i)
    \/ \E i \in 0 .. (MaxShaders - 1), stage \in SourceStages : LoadSourceErr(i, stage)
    \/ \E i \in 0 .. (MaxShaders - 1) : LoadPassSemantics(i)
    \/ LoadTextureSemantics
    \/ SamplerSetNew
    \/ SamplerSetNewErr
    \/ \E i \in 0 .. (MaxShaders - 1) : InitPass(i, PlainReflection)
    \/ \E i \in 0 .. (MaxShaders - 1), stage \in PassStages : InitPassErr(i, stage)
    \/ LoadLuts
    \/ LoadLutsErr

\* presets whose passes have no alias and no parameter, and no LUT
PlainPresets ==
    {[shaders |-> [i \in 1 .. n |-> ShaderPassConfig(i - 1, None, {})], textures |-> <<>>] :
        n \in 1 .. MaxShaders}

LoadInitPlain == \E p \in PlainPresets : LoadStart(p)

\* loading a plain preset whose shaders reflect to any of the block layouts
LoadNextReflect ==
    \/ \E i \in 0 .. (MaxShaders - 1) : LoadSource(i)
    \/ \E i \in 0 .. (MaxShaders - 1), stage \in SourceStages : LoadSourceErr(i, stage)
    \/ \E i \in 0 .. (MaxShaders - 1) : LoadPassSemantics(i)
    \/ LoadTextureSemantics
    \/ SamplerSetNew
    \/ SamplerSetNewErr
    \/ \E i \in 0 .. (MaxShaders - 1), reflection \in Reflections : InitPass(i, reflection)
    \/ \E i \in 0 .. (MaxShaders - 1), stage \in PassStages : InitPassErr(i, stage)
    \/ LoadLuts

\* --------------------------------------------------- properties of loading

\* C11: when reflection, shader compilation or the allocation of a buffer
\* fails for a pass, load_from_preset returns an error to its caller, it does
\* not panic, and no chain with a part of the passes is returned.
C11_LoadSurfacesErrors ==
    load_pc = "done" =>
        /\ load_result.status \in {"Ok", "Err"}
        /\ fault # "none" => (load_result.status = "Err" /\ load_result.passes = <<>>)
        /\ load_result.status = "Ok" => Len(load_result.passes) = NumShaders

\* C21: in every pass init_passes has built that has both a UBO buffer and a
\* push-constant buffer, the slot of the push buffer differs from the slot of
\* the UBO buffer.
C21_NoSlotReuse ==
    \A i \in 1 .. Len(filters) :
        (filters[i].uniform_buffer.some /\ filters[i].push_buffer.some) =>
            filters[i].push_buffer.binding # filters[i].uniform_buffer.binding

\* the pass whose load_pass_semantics call was the last step
JustRegistered(i) ==
    /\ i < NumShaders
    /\ \/ load_pc = "pass_semantics" /\ load_index = i + 1
       \/ load_pc = "texture_semantics" /\ i = NumShaders - 1

\* C20: for a pass with index k and an alias A that is not blank, loading
\* registers the texture name A as PassOutput[k], the uniform name A+"Size" as
\* the size of PassOutput[k], the texture name A+"Feedback" as PassFeedback[k]
\* and the uniform name A+"FeedbackSize" as the size of PassFeedback[k], and
\* touches no other name; for a pass with no alias, or an alias that is empty
\* or only whitespace, both maps stay as they were.
C20_AliasRegistration ==
    \A i \in 0 .. (MaxShaders - 1) :
        JustRegistered(i) =>
            LET cfg == preset.shaders[i + 1]
                A == cfg.alias.value
                blank == \A c \in 1 .. Len(A) : A[c] \in Whitespace
            IN  IF ~cfg.alias.some \/ blank
                THEN /\ texture_semantics = sem_before.texture
                     /\ uniform_semantics = sem_before.uniform
                ELSE /\ DOMAIN texture_semantics =
                            DOMAIN sem_before.texture \cup {A, A \o Chars_Feedback}
                     /\ DOMAIN uniform_semantics =
                            DOMAIN sem_before.uniform
                                \cup {A \o Chars_Size, A \o Chars_Feedback \o Chars_Size}
                     /\ texture_semantics[A] = Sem(PassOutput, i)
                     /\ uniform_semantics[A \o Chars_Size] = TextureSize(PassOutput, i)
                     /\ texture_semantics[A \o Chars_Feedback] = Sem(PassFeedback, i)
                     /\ uniform_semantics[A \o Chars_Feedback \o Chars_Size] =
                            TextureSize(PassFeedback, i)
                     /\ \A n \in DOMAIN sem_before.texture \ {A, A \o Chars_Feedback} :
                            texture_semantics[n] = sem_before.texture[n]
                     /\ \A n \in DOMAIN sem_before.uniform
                                    \ {A \o Chars_Size, A \o Chars_Feedback \o Chars_Size} :
                            uniform_semantics[n] = sem_before.uniform[n]

C20_Witness ==
    /\ JustRegistered(1)
    /\ preset.shaders[1].alias = Some(<<"A">>)
    /\ preset.shaders[2].alias = Some(<<" ">>)
    /\ texture_semantics[<<"A">> \o Chars_Feedback] = Sem(PassFeedback, 0)
    /\ DOMAIN uniform_semantics = {<<"P">>, <<"A">> \o Chars_Size,
                                   <<"A">> \o Chars_Feedback \o Chars_Size}

\* the passes whose alias load_pass_semantics registers
Aliased == {k \in 0 .. (NumShaders - 1) :
                /\ preset.shaders[k + 1].alias.some
                /\ \E c \in 1 .. Len(preset.shaders[k + 1].alias.value) :
                      preset.shaders[k + 1].alias.value[c] \notin Whitespace}

AliasOf(k) == preset.shaders[k + 1].alias.value

\* the last LUT with the name n, the last pass that registers the name n
LastLut(n) == SetMax({i \in 1 .. Len(preset.textures) : preset.textures[i] = n})
LastPass(names(_), n) == SetMax({k \in Aliased : n \in names(AliasOf(k))})

TextureNamesOf(a) == {a, a \o Chars_Feedback}
UniformNamesOf(a) == {a \o Chars_Size, a \o Chars_Feedback \o Chars_Size}

\* C30: when load_preset is done every registered name has the semantic of
\* its last registration in the order parameters, pass aliases in pass order,
\* LUT names: a LUT name is User[i] of the last LUT with the name; otherwise a
\* name a pass alias gives rise to belongs to the last such pass; otherwise
\* the name is a float parameter. No other name is registered.
C30_LastWriterWins ==
    load_pc = "samplers" =>
        LET luts == {preset.textures[i] : i \in 1 .. Len(preset.textures)}
            parameters == UNION {preset.shaders[i].parameters : i \in 1 .. NumShaders}
        IN  /\ DOMAIN texture_semantics =
                  luts \cup UNION {TextureNamesOf(AliasOf(k)) : k \in Aliased}
            /\ DOMAIN uniform_semantics =
                  parameters
                      \cup {n \o Chars_Size : n \in luts}
                      \cup UNION {UniformNamesOf(AliasOf(k)) : k \in Aliased}
            /\ \A n \in DOMAIN texture_semantics :
                  texture_semantics[n] =
                      IF n \in luts THEN Sem(User, LastLut(n) - 1)
                      ELSE LET k == LastPass(TextureNamesOf, n)
                           IN  IF n = AliasOf(k) THEN Sem(PassOutput, k)
                               ELSE Sem(PassFeedback, k)
            /\ \A n \in DOMAIN uniform_semantics :
                  uniform_semantics[n] =
                      IF \E l \in luts : n = l \o Chars_Size
                      THEN TextureSize(User,
                                       LastLut(CHOOSE l \in luts : n = l \o Chars_Size) - 1)
                      ELSE IF \E k \in Aliased : n \in UniformNamesOf(AliasOf(k))
                      THEN LET k == LastPass(UniformNamesOf, n)
                           IN  IF n = AliasOf(k) \o Chars_Size
                               THEN TextureSize(PassOutput, k)
                               ELSE TextureSize(PassFeedback, k)
                      ELSE FloatParameter

\* two passes share the alias A, the first declares a parameter ASize, and a
\* LUT is called A too
C30_Witness ==
    /\ load_pc = "samplers"
    /\ NumShaders = 2
    /\ preset.shaders[1].alias = Some(<<"A">>)
    /\ preset.shaders[2].alias = Some(<<"A">>)
    /\ preset.shaders[1].parameters = {<<"A">> \o Chars_Size}
    /\ preset.textures = <<(<<"A">>)>>
    /\ texture_semantics[<<"A">>] = Sem(User, 0)
    /\ texture_semantics[<<"A">> \o Chars_Feedback] = Sem(PassFeedback, 1)
    /\ uniform_semantics[<<"A">> \o Chars_Size] = TextureSize(User, 0)

\* ------------------------------------------------------------- call model

\* The frame counter is a u32; the model keeps CountBits of it. An even
\* number of bits leaves 2^CountBits with the remainders 2^32 has modulo 2 and 3.
CountBits == 4
MaxInFlight == 3

VARIABLES
    call,      \* the last call of a function of the library: its name and arguments
    result     \* what the call returned

callVars == <<call, result>>

\* enum VariableSemantics
VariableSemantics ==
    {"MVP", "Output", "FinalViewport", "FrameCount", "FrameDirection", "FloatParameter"}

\* FrameDirection is written as an unsigned value
binding_type_unsigned(s) ==
    CASE s = "MVP" -> "MVP"
      [] s = "Output" -> "Size"
      [] s = "FinalViewport" -> "Size"
      [] s = "FrameCount" -> "Unsigned"
      [] s = "FrameDirection" -> "Unsigned"
      [] s = "FloatParameter" -> "Float"

\* VariableSemantics::binding_type
binding_type(s) ==
    CASE s = "MVP" -> "MVP"
      [] s = "Output" -> "Size"
      [] s = "FinalViewport" -> "Size"
      [] s = "FrameCount" -> "Unsigned"
      [] s = "FrameDirection" -> "Signed"
      [] s = "FloatParameter" -> "Float"

\* ShaderPassConfig::get_format_override: the srgb and float framebuffer flags
get_format_override(cfg) ==
    IF cfg.srgb_framebuffer THEN Some(R8G8B8A8Srgb)
    ELSE IF cfg.float_framebuffer THEN Some(R16G16B16A16Sfloat)
    ELSE None

\* the format of the source is returned as it is
get_format_of_source(source, cfg) ==
    IF get_format_override(cfg).some THEN get_format_override(cfg).value
    ELSE source.format

\* FilterPass::get_format
get_format(source, cfg) ==
    LET fb_format == source.format
    IN  IF get_format_override(cfg).some THEN get_format_override(cfg).value
        ELSE IF fb_format = Unknown THEN R8G8B8A8Unorm
        ELSE fb_format

\* static DEFAULT_MVP
DEFAULT_MVP == <<2, 0, 0, 0,  0, 2, 0, 0,  0, 0, 2, 0,  -1, -1, 0, 1>>

\* a matrix a caller may supply
IdentityMVP == <<1, 0, 0, 0,  0, 1, 0, 0,  0, 0, 1, 0,  0, 0, 0, 1>>

\* the caller's matrix is ignored
RenderTarget_new_default(backbuffer, mvp, x, y) ==
    [framebuffer |-> backbuffer, x |-> x, mvp |-> DEFAULT_MVP, y |-> y]

\* RenderTarget::new
RenderTarget_new(backbuffer, mvp, x, y) ==
    IF mvp.some
    THEN [framebuffer |-> backbuffer, x |-> x, mvp |-> mvp.value, y |-> y]
    ELSE [framebuffer |-> backbuffer, x |-> x, mvp |-> DEFAULT_MVP, y |-> y]

\* impl From<&Viewport> for RenderTarget
RenderTarget_from(value) == RenderTarget_new(value.output, value.mvp, value.x, value.y)

\* struct Viewport of the gl runtime
Viewports ==
    {[output |-> fb, mvp |-> mvp, x |-> x, y |-> y] :
        fb \in {1, 2}, mvp \in {None, Some(IdentityMVP), Some(DEFAULT_MVP)},
        x \in {-1, 0, 1}, y \in {0, 2}}

FrameCounters == 0 .. (2 ^ CountBits - 1)

\* the counter of the frame after the one with counter c
NextCounter(c) == (c + 1) % (2 ^ CountBits)

\* FilterPass::draw: (frame_count % self.frames_in_flight) as usize; the
\* remainder by zero panics
descriptor_set_index(count, in_flight) ==
    IF in_flight = 0 THEN [panic |-> TRUE, index |-> 0]
    ELSE [panic |-> FALSE, index |-> count % in_flight]

GetFormat(format, srgb, float) ==
    LET source == [format |-> format]
        cfg == [srgb_framebuffer |-> srgb, float_framebuffer |-> float]
    IN  /\ call' = [fn |-> "get_format", source |-> source, config |-> cfg]
        /\ result' = get_format(source, cfg)

BindingType(s) ==
    /\ call' = [fn |-> "binding_type", semantics |-> s]
    /\ result' = binding_type(s)

IsArray(s) ==
    /\ call' = [fn |-> "is_array", semantics |-> s]
    /\ result' = is_array(s)

RenderTargetFrom(v) ==
    /\ call' = [fn |-> "RenderTarget::from", viewport |-> v]
    /\ result' = RenderTarget_from(v)

DrawDescriptor(count, in_flight) ==
    /\ call' = [fn |-> "draw", frame_count |-> count, frames_in_flight |-> in_flight]
    /\ result' = descriptor_set_index(count, in_flight)

CallStart ==
    /\ call = [fn |-> "none"]
    /\ result = "none"

CallNext ==
    \/ \E format \in ImageFormats, srgb \in BOOLEAN, float \in BOOLEAN :
          GetFormat(format, srgb, float)
    \/ \E s \in VariableSemantics : BindingType(s)
    \/ \E s \in TextureSemanticsAll : IsArray(s)
    \/ \E v \in Viewports : RenderTargetFrom(v)
    \/ \E count \in FrameCounters, in_flight \in 0 .. MaxInFlight :
          DrawDescriptor(count, in_flight)

\* ---------------------------------------------------- properties of calls

\* C25: get_format returns the format the preset's flags override with when
\* there is one, otherwise the format of the shader source with Unknown
\* replaced by R8G8B8A8Unorm; it never returns Unknown.
C25_FormatSelection ==
    call.fn = "get_format" =>
        /\ result # Unknown
        /\ result \in ImageFormats
        /\ call.config.srgb_framebuffer => result = R8G8B8A8Srgb
        /\ (~call.config.srgb_framebuffer /\ call.config.float_framebuffer) =>
              result = R16G16B16A16Sfloat
        /\ (~call.config.srgb_framebuffer /\ ~call.config.float_framebuffer) =>
              /\ call.source.format = Unknown => result = R8G8B8A8Unorm
              /\ call.source.format # Unknown => result = call.source.format

\* no override and a source that declares no format
C25_Witness ==
    /\ call.fn = "get_format"
    /\ ~call.config.srgb_framebuffer
    /\ ~call.config.float_framebuffer
    /\ call.source.format = Unknown
    /\ result = R8G8B8A8Unorm

\* C26: binding_type maps MVP to MVP, Output and FinalViewport to Size,
\* FrameCount to Unsigned, FrameDirection to Signed and FloatParameter to
\* Float; is_array is false for Original and Source and true for every other
\* texture semantic.
C26_WriterSelection ==
    /\ call.fn = "binding_type" =>
          result = [MVP |-> "MVP", Output |-> "Size", FinalViewport |-> "Size",
                    FrameCount |-> "Unsigned", FrameDirection |-> "Signed",
                    FloatParameter |-> "Float"][call.semantics]
    /\ call.fn = "is_array" =>
          result = (call.semantics \in {OriginalHistory, PassOutput, PassFeedback, User})

C26_Witness ==
    /\ call.fn = "binding_type"
    /\ call.semantics = "FrameDirection"
    /\ result = "Signed"

\* C27: the render target built from a viewport has the caller's MVP when
\* the viewport carries one and DEFAULT_MVP otherwise, and the framebuffer
\* and the x and y of the viewport.
C27_MvpOverride ==
    call.fn = "RenderTarget::from" =>
        /\ call.viewport.mvp.some => result.mvp = call.viewport.mvp.value
        /\ ~call.viewport.mvp.some =>
              result.mvp = <<2, 0, 0, 0,  0, 2, 0, 0,  0, 0, 2, 0,  -1, -1, 0, 1>>
        /\ result.framebuffer = call.viewport.output
        /\ result.x = call.viewport.x
        /\ result.y = call.viewport.y

\* a caller's matrix that is not the default, at an origin with x # y
C27_Witness ==
    /\ call.fn = "RenderTarget::from"
    /\ call.viewport.mvp = Some(IdentityMVP)
    /\ call.viewport.x = -1
    /\ call.viewport.y = 2
    /\ result.mvp = IdentityMVP
    /\ result.x = -1

\* C29: draw selects the descriptor set frame_count mod frames_in_flight, an
\* index below frames_in_flight, and when frames_in_flight > 1 the frame
\* after it, with the counter one higher and wrapped, selects another set.
C29_DescriptorSetSelection ==
    call.fn = "draw" =>
        /\ ~result.panic
        /\ result.index \in 0 .. (call.frames_in_flight - 1)
        /\ result.index = call.frame_count % call.frames_in_flight
        /\ call.frames_in_flight > 1 =>
              descriptor_set_index(NextCounter(call.frame_count),
                                   call.frames_in_flight).index # result.index

\* --------------------------------------------------------- specifications

vars == <<frameVars, imageVars, nameVars, loadVars, callVars>>

\* the frame scheduler
Init == FrameInit /\ ImageParked /\ NameParked /\ LoadParked /\ CallStart

Next == FrameNext /\ UNCHANGED <<imageVars, nameVars, loadVars, callVars>>

Spec == Init /\ [][Next]_vars

\* the frame scheduler with inputs of different sizes
InitHistory == FrameInit /\ ImageParked /\ NameParked /\ LoadParked /\ CallStart

NextHistory == FrameNextSized /\ UNCHANGED <<imageVars, nameVars, loadVars, callVars>>

SpecHistory == InitHistory /\ [][NextHistory]_vars

\* loading plain presets whose shaders reflect to different block layouts
InitReflect == FrameParked /\ ImageParked /\ NameParked /\ LoadInitPlain /\ CallStart

NextReflect == LoadNextReflect /\ UNCHANGED <<frameVars, imageVars, nameVars, callVars>>

SpecReflect == InitReflect /\ [][NextReflect]_vars

\* calls of the pure functions
InitCalls == FrameParked /\ ImageParked /\ NameParked /\ LoadParked /\ CallStart

NextCalls == CallNext /\ UNCHANGED <<frameVars, imageVars, nameVars, loadVars>>

SpecCalls == InitCalls /\ [][NextCalls]_vars

\* the owned image
InitImage == FrameParked /\ ImageInit /\ NameParked /\ LoadParked /\ CallStart

NextImage == ImageNext /\ UNCHANGED <<frameVars, nameVars, loadVars, callVars>>

SpecImage == InitImage /\ [][NextImage]_vars

\* the name classifier
InitNames == FrameParked /\ ImageParked /\ NameInit /\ LoadParked /\ CallStart

NextNames == NameNext /\ UNCHANGED <<frameVars, imageVars, loadVars, callVars>>

SpecNames == InitNames /\ [][NextNames]_vars

\* loading a chain from a preset
InitLoad == FrameParked /\ ImageParked /\ NameParked /\ LoadInit /\ CallStart

NextLoad == LoadNext /\ UNCHANGED <<frameVars, imageVars, nameVars, callVars>>

SpecLoad == InitLoad /\ [][NextLoad]_vars

====
